---- MODULE Spec2Model ----
(***************************************************************************)
(* BookBack (src/backend.py): the appointment-slot allocation engine.      *)
(*                                                                         *)
(* The datastore tables are the shared state.  Every HTTP handler is a     *)
(* sequence of datastore calls; each call is one atomic step and the       *)
(* handler keeps what it read in local variables between the calls, so     *)
(* two handlers running at once interleave call by call.                   *)
(*                                                                         *)
(* A Python dict is a sequence of <<key, value>> pairs in insertion order  *)
(* with distinct keys; JSON text is a sequence of tokens.                  *)
(***************************************************************************)
EXTENDS Integers, Sequences, FiniteSets, Bags, TLC

VARIABLES
    clinic_slots,   \* clinics.clinic_slots: per clinic, the template as JSON text
    patients,       \* patients: per patient id, whether the row exists and next_visit
    appointments,   \* appointments: the token rows; a token string is its row number
    day_slots,      \* day_slots: per (clinic_id, slot_date), the rows' slots JSON text
    ap_responses,   \* ap_responses: the bag of appointment-log rows
    accounts,       \* clinics: per email address, the sign-up columns of its row
    now,            \* the wall clock, in days
    req,            \* per worker, the handler it is running
    served          \* per (clinic, date), the map /day-slots last returned, forgotten
                    \* when a reservation writes that inventory

db   == <<clinic_slots, patients, appointments, day_slots, ap_responses, accounts>>
vars == <<clinic_slots, patients, appointments, day_slots, ap_responses, accounts,
          now, req, served>>

----------------------------------------------------------------------------
(* Bounds of the exploration *)

MaxTokens == 2          \* rows the appointments table may hold
MaxNow    == 8          \* the clock stops advancing past this day
MaxVerify == 3          \* verification tokens generate_token() may draw

(* Program constant *)
ExpiryDays == 7         \* timedelta(days=7)

(* Small input sets.  The clinics have signed up and the patients have    *)
(* been added before the first step; p1 is a patient of c1, p2 of c2.      *)
Reqs       == {1, 2}                     \* handlers in flight at the same time
Clinics    == {"c1", "c2"}
PatientIds == {"p1", "p2"}
Dates      == {1, 7}                     \* day numbers; day 0 is a Monday
RaceDates  == {7}                        \* the date concurrent handlers ask for
Labels     == {"09:00", "09:30"}
TickDays   == {7, 8}
NoDate     == 0 - 1                      \* no date: before every day number
Emails     == {"a@x", "b@x"}             \* addresses that sign up

(* patients.clinic_id: set when the patient is added, never updated *)
PatientClinic(p) == IF p = "p1" THEN "c1" ELSE "c2"

----------------------------------------------------------------------------
(* Python dict operations *)

DictKeys(d) == {d[i][1] : i \in DOMAIN d}

DictHas(d, k) == k \in DictKeys(d)

DictGet(d, k) == d[CHOOSE i \in DOMAIN d : d[i][1] = k][2]

DictSet(d, k, v) ==
    IF DictHas(d, k)
    THEN [i \in DOMAIN d |-> IF d[i][1] = k THEN <<k, v>> ELSE d[i]]
    ELSE Append(d, <<k, v>>)

(* The dict as a mathematical map: what two dicts are compared by *)
DictMap(d) == [k \in DictKeys(d) |-> DictGet(d, k)]

----------------------------------------------------------------------------
(* json.dumps / json.loads of the slot dict {label: state} *)

RECURSIVE FlattenPairs(_)
FlattenPairs(d) ==
    IF d = <<>> THEN <<>> ELSE <<d[1][1], d[1][2]>> \o FlattenPairs(Tail(d))

JsonDumpsDict(d) == <<"{">> \o FlattenPairs(d) \o <<"}">>

RECURSIVE ParsePairs(_, _)
ParsePairs(b, acc) ==
    IF b = <<>> THEN acc
    ELSE ParsePairs(SubSeq(b, 3, Len(b)), DictSet(acc, b[1], b[2]))

JsonLoadsDict(t) == ParsePairs(SubSeq(t, 2, Len(t) - 1), <<>>)

(* json.dumps / json.loads of the weekly template: a list of dicts         *)
(* {weekday: [label, ...]}                                                 *)

RECURSIVE DumpsEntryPairs(_)
DumpsEntryPairs(e) ==
    IF e = <<>> THEN <<>>
    ELSE <<e[1][1], "[">> \o e[1][2] \o <<"]">> \o DumpsEntryPairs(Tail(e))

RECURSIVE DumpsEntries(_)
DumpsEntries(tpl) ==
    IF tpl = <<>> THEN <<>>
    ELSE <<"{">> \o DumpsEntryPairs(tpl[1]) \o <<"}">> \o DumpsEntries(Tail(tpl))

JsonDumpsTemplate(tpl) == <<"[">> \o DumpsEntries(tpl) \o <<"]">>

(* The parsers return <<value, position after the value>> *)
RECURSIVE ParseLabels(_, _, _)
ParseLabels(t, i, acc) ==
    IF t[i] = "]" THEN <<acc, i + 1>>
    ELSE ParseLabels(t, i + 1, Append(acc, t[i]))

RECURSIVE ParseEntry(_, _, _)
ParseEntry(t, i, acc) ==
    IF t[i] = "}" THEN <<acc, i + 1>>
    ELSE LET ls == ParseLabels(t, i + 2, <<>>)
         IN  ParseEntry(t, ls[2], DictSet(acc, t[i], ls[1]))

RECURSIVE ParseEntries(_, _, _)
ParseEntries(t, i, acc) ==
    IF t[i] = "]" THEN acc
    ELSE LET e == ParseEntry(t, i + 1, <<>>)
         IN  ParseEntries(t, e[2], Append(acc, e[1]))

JsonLoadsTemplate(t) == ParseEntries(t, 2, <<>>)

----------------------------------------------------------------------------
(* Weekly templates a clinic may save *)

NoTemplate == <<>>       \* clinic_slots column is NULL: never saved

(* [{"mon": ["09:00", "09:30"]}] : nothing on Tuesdays *)
TplPlain == << << <<"mon", <<"09:00", "09:30">>>> >> >>
(* [{"mon": ["09:30"]}, {"mon": ["09:00"], "tue": ["09:00", "09:00"]}] :    *)
(* two day-entries for Monday, a label listed twice on Tuesday              *)
TplDup   == << << <<"mon", <<"09:30">>>> >>,
               << <<"mon", <<"09:00">>>>, <<"tue", <<"09:00", "09:00">>>> >> >>

Templates == {TplPlain, TplDup}

(* calendar.day_name[...].lower()[:3] *)
DayCodes == <<"mon", "tue", "wed", "thu", "fri", "sat", "sun">>

(* A variant that counts the week from Sunday *)
WeekdaySundayFirst(d) == DayCodes[((d + 1) % 7) + 1]

(* date.weekday(): Monday is 0 *)
Weekday(d) == DayCodes[(d % 7) + 1]

(* The loop that builds slots_for_day: the first day_obj that has the      *)
(* weekday decides, every label of it is set to "free"                     *)
RECURSIVE FreeAll(_, _)
FreeAll(labels, acc) ==
    IF labels = <<>> THEN acc
    ELSE FreeAll(Tail(labels), DictSet(acc, labels[1], "free"))

(* A variant of the loop without the break: every day_obj that has the    *)
(* weekday adds its labels                                                 *)
RECURSIVE SlotsForDayNoBreak(_, _)
SlotsForDayNoBreak(tpl, weekday) ==
    IF tpl = <<>> THEN <<>>
    ELSE LET rest  == SlotsForDayNoBreak(Tail(tpl), weekday)
             later == [i \in DOMAIN rest |-> rest[i][1]]
         IN  IF DictHas(tpl[1], weekday)
             THEN FreeAll(later, FreeAll(DictGet(tpl[1], weekday), <<>>))
             ELSE rest

RECURSIVE SlotsForDay(_, _)
SlotsForDay(tpl, weekday) ==
    IF tpl = <<>> THEN <<>>
    ELSE IF DictHas(tpl[1], weekday)
         THEN FreeAll(DictGet(tpl[1], weekday), <<>>)
         ELSE SlotsForDay(Tail(tpl), weekday)

----------------------------------------------------------------------------
(* Table queries *)

TokenRows(t) == {i \in DOMAIN appointments : i = t}

(* day_slots[c, d] holds the slots column of the rows with clinic_id = c    *)
(* and slot_date = d, in insertion order; a row's id is its position        *)
DayRows(c, d) == DOMAIN day_slots[c, d]

(* A variant that looks at the expired flag only *)
UnusableIgnoringUsed(a) == a.expired

(* if appointment["used"] or appointment["expired"] *)
Unusable(a) == a.used \/ a.expired

(* created_at < now - timedelta(days=7) *)
AgedOut(created_at, at) == created_at < at - ExpiryDays

(* A variant without the second check *)
SlotCheckNoFree(slots, s) ==
    IF ~DictHas(slots, s) THEN "Slot does not exist" ELSE "ok"

(* if slot not in slots ... ; if slots[slot] != "free" ... *)
SlotCheck(slots, s) ==
    IF ~DictHas(slots, s) THEN "Slot does not exist"
    ELSE IF DictGet(slots, s) # "free" THEN "Slot already booked"
    ELSE "ok"

----------------------------------------------------------------------------
(* Handlers.  req[r] is the handler worker r is running: its arguments,    *)
(* its place in the code, its local variables, its response, and the       *)
(* writes it has applied so far.                                           *)

IdleReq ==
    [pc |-> "idle", kind |-> "none", token |-> 0, date |-> NoDate, slot |-> "",
     patient |-> "", day_id |-> 0, slots |-> <<>>, result |-> "", effects |-> {},
     email |-> "", verify_token |-> 0, mail |-> "none",
     clinic |-> "", clinic_slots |-> <<>>]

Done(rq, result) ==
    [rq EXCEPT !.pc = "done", !.result = result, !.patient = "", !.day_id = 0,
               !.slots = <<>>]

NotServed == [known |-> FALSE, slots |-> <<>>]

(* No row of the clinics table has the email address *)
NoAccount == [present |-> FALSE, email_verified |-> FALSE, email_verify_token |-> 0]

Init ==
    /\ clinic_slots = [c \in Clinics |-> NoTemplate]
    /\ patients = [p \in PatientIds |-> [present |-> TRUE, next_visit |-> NoDate]]
    /\ appointments = <<>>
    /\ day_slots = [k \in Clinics \X Dates |-> <<>>]
    /\ ap_responses = EmptyBag
    /\ accounts = [e \in Emails |-> NoAccount]
    /\ now = 0
    /\ req = [r \in Reqs |-> IdleReq]
    /\ served = [k \in Clinics \X Dates |-> NotServed]

----------------------------------------------------------------------------
(* POST /add-slots : modify_slots *)

WriteStages == {"write_day", "write_patient", "write_log", "write_token", "insert_day"}

(* A variant of step 1 that marks the token used as soon as it is accepted *)
ReserveReadTokenConsumeFirst(r, t, d, s) ==
    /\ req[r].pc = "idle"
    /\ LET rq == [IdleReq EXCEPT !.kind = "reserve", !.token = t, !.date = d,
                                 !.slot = s]
       IN  IF TokenRows(t) = {}
           THEN /\ req' = [req EXCEPT ![r] = Done(rq, "Invalid token")]
                /\ UNCHANGED appointments
           ELSE IF Unusable(appointments[t])
           THEN /\ req' = [req EXCEPT ![r] = Done(rq, "Token already used or expired")]
                /\ UNCHANGED appointments
           ELSE /\ req' = [req EXCEPT ![r] =
                        [rq EXCEPT !.pc = "read_patient", !.effects = {"token"}]]
                /\ appointments' = [appointments EXCEPT ![t].used = TRUE]
    /\ UNCHANGED <<accounts, clinic_slots, patients, day_slots, ap_responses, now, served>>

(* 1. appointments.select().eq("token", t).single(); used / expired check.  *)
(* A query that finds no row is answered by the handler's own 404: with a  *)
(* client whose single() raises instead, the request ends in a 500, and    *)
(* either way it has written nothing.                                      *)
ReserveReadToken(r, t, d, s) ==
    /\ req[r].pc = "idle"
    /\ LET rq == [IdleReq EXCEPT !.kind = "reserve", !.token = t, !.date = d,
                                 !.slot = s]
       IN  req' = [req EXCEPT ![r] =
                IF TokenRows(t) = {} THEN Done(rq, "Invalid token")
                ELSE IF Unusable(appointments[t])
                     THEN Done(rq, "Token already used or expired")
                     ELSE [rq EXCEPT !.pc = "read_patient"]]
    /\ UNCHANGED <<db, now, served>>

(* 2. patients.select().eq("id", appointment["patient_id"]).single() *)
ReserveReadPatient(r) ==
    /\ req[r].pc = "read_patient"
    /\ LET p == appointments[req[r].token].patient_id
       IN  req' = [req EXCEPT ![r] =
                IF ~patients[p].present THEN Done(@, "Patient not found")
                ELSE [@ EXCEPT !.pc = "read_day", !.patient = p]]
    /\ UNCHANGED <<db, now, served>>

(* A variant of step 3 that inserts an empty inventory when there is none *)
ReserveReadDayCreate(r) ==
    /\ req[r].pc = "read_day"
    /\ LET key == <<PatientClinic(req[r].patient), req[r].date>>
       IN  IF DayRows(key[1], key[2]) = {}
           THEN /\ day_slots' = [day_slots EXCEPT ![key] = Append(@, JsonDumpsDict(<<>>))]
                /\ req' = [req EXCEPT ![r] = Done(@, "Slot does not exist")]
           ELSE /\ req' = [req EXCEPT ![r] = Done(@, "Internal Server Error")]
                /\ UNCHANGED day_slots
    /\ UNCHANGED <<accounts, clinic_slots, patients, appointments, ap_responses, now, served>>

(* 3-5. day_slots.select().eq(clinic_id).eq(slot_date).single(): no row is  *)
(* the 404, several rows make single() raise; json.loads; the two slot      *)
(* checks; slots[slot] = "booked" on the local copy                         *)
ReserveReadDay(r) ==
    /\ req[r].pc = "read_day"
    /\ LET key  == <<PatientClinic(req[r].patient), req[r].date>>
           rows == DayRows(key[1], key[2])
       IN  req' = [req EXCEPT ![r] =
                IF rows = {} THEN Done(@, "Day slots not found")
                ELSE IF Cardinality(rows) > 1 THEN Done(@, "Internal Server Error")
                ELSE LET id    == CHOOSE i \in rows : TRUE
                         slots == JsonLoadsDict(day_slots[key][id])
                         check == SlotCheck(slots, req[r].slot)
                     IN  IF check # "ok" THEN Done(@, check)
                         ELSE [@ EXCEPT !.pc = "write_day", !.day_id = id,
                                        !.slots = DictSet(slots, req[r].slot, "booked")]]
    /\ UNCHANGED <<db, now, served>>

(* A variant of step 6 that writes the booked slot alone *)
ReserveWriteDaySlotOnly(r) ==
    /\ req[r].pc = "write_day"
    /\ LET key == <<PatientClinic(req[r].patient), req[r].date>>
       IN  /\ day_slots' = [day_slots EXCEPT ![key][req[r].day_id] =
                                JsonDumpsDict(<< <<req[r].slot, "booked">> >>)]
           /\ served' = [served EXCEPT ![key] = NotServed]
    /\ req' = [req EXCEPT ![r].pc = "write_patient", ![r].effects = @ \cup {"slot"}]
    /\ UNCHANGED <<accounts, clinic_slots, patients, appointments, ap_responses, now>>

(* 6. day_slots.update({"slots": json.dumps(slots)}).eq("id", day_slot["id"]) *)
ReserveWriteDay(r) ==
    /\ req[r].pc = "write_day"
    /\ LET key == <<PatientClinic(req[r].patient), req[r].date>>
       IN  /\ day_slots' = [day_slots EXCEPT ![key][req[r].day_id] =
                                JsonDumpsDict(req[r].slots)]
           /\ served' = [served EXCEPT ![key] = NotServed]
    /\ req' = [req EXCEPT ![r].pc = "write_patient", ![r].effects = @ \cup {"slot"}]
    /\ UNCHANGED <<accounts, clinic_slots, patients, appointments, ap_responses, now>>

(* 7. patients.update({"next_visit": date}).eq("id", patient["id"]) : an     *)
(* update that matches no row changes nothing and raises nothing             *)
ReserveWritePatient(r) ==
    /\ req[r].pc = "write_patient"
    /\ patients' = [patients EXCEPT ![req[r].patient].next_visit =
                        IF patients[req[r].patient].present THEN req[r].date ELSE @]
    /\ req' = [req EXCEPT ![r].pc = "write_log", ![r].effects = @ \cup {"patient"}]
    /\ UNCHANGED <<accounts, clinic_slots, appointments, day_slots, ap_responses, now, served>>

(* 8. ap_responses.insert({clinic_id, name, date, slot}) *)
ReserveWriteLog(r) ==
    /\ req[r].pc = "write_log"
    /\ ap_responses' = ap_responses (+) SetToBag({
            [clinic_id |-> PatientClinic(req[r].patient), name |-> req[r].patient,
             date |-> req[r].date, slot |-> req[r].slot]})
    /\ req' = [req EXCEPT ![r].pc = "write_token", ![r].effects = @ \cup {"log"}]
    /\ UNCHANGED <<accounts, clinic_slots, patients, appointments, day_slots, now, served>>

(* 8'. appointments.update({"used": True}).eq("id", appointment["id"]); return *)
ReserveWriteToken(r) ==
    /\ req[r].pc = "write_token"
    /\ appointments' = [appointments EXCEPT ![req[r].token].used = TRUE]
    /\ req' = [req EXCEPT ![r] = Done([@ EXCEPT !.effects = @ \cup {"token"}], "success")]
    /\ UNCHANGED <<accounts, clinic_slots, patients, day_slots, ap_responses, now, served>>

(* A datastore write raises (.execute() fails): the write is not applied,  *)
(* nothing catches the exception, the handler ends with a 500             *)
StorageFailure(r) ==
    /\ req[r].pc \in WriteStages
    /\ req' = [req EXCEPT ![r] = Done(@, "Internal Server Error")]
    /\ UNCHANGED <<db, now, served>>

(* The response has been delivered; the worker takes the next request *)
Finish(r) ==
    /\ req[r].pc = "done"
    /\ req' = [req EXCEPT ![r] = IdleReq]
    /\ UNCHANGED <<db, now, served>>

----------------------------------------------------------------------------
(* POST /day-slots : get_or_create_day_slots *)

(* 1. appointments.select().eq("token", t).limit(1); used / expired check *)
DaySlotsReadToken(r, t, d) ==
    /\ req[r].pc = "idle"
    /\ LET rq == [IdleReq EXCEPT !.kind = "dayslots", !.token = t, !.date = d]
       IN  req' = [req EXCEPT ![r] =
                IF TokenRows(t) = {} THEN Done(rq, "Invalid token")
                ELSE IF Unusable(appointments[t])
                     THEN Done(rq, "Token invalid")
                     ELSE [rq EXCEPT !.pc = "g_read_patient"]]
    /\ UNCHANGED <<db, now, served>>

(* 2. patients.select("clinic_id").limit(1); patient_res.data[0] raises     *)
(* IndexError when the patient row is gone                                  *)
DaySlotsReadPatient(r) ==
    /\ req[r].pc = "g_read_patient"
    /\ LET p == appointments[req[r].token].patient_id
       IN  req' = [req EXCEPT ![r] =
                IF ~patients[p].present THEN Done(@, "Internal Server Error")
                ELSE [@ EXCEPT !.pc = "g_read_existing", !.patient = p]]
    /\ UNCHANGED <<db, now, served>>

(* A variant of step 3 that never finds the row *)
DaySlotsReadExistingMiss(r) ==
    /\ req[r].pc = "g_read_existing"
    /\ req' = [req EXCEPT ![r].pc = "g_read_clinic"]
    /\ UNCHANGED <<db, now, served>>

(* 3. day_slots.select().eq(clinic_id).eq(slot_date).limit(1): any one of   *)
(* the matching rows; when there is one, return json.loads of its slots     *)
DaySlotsReadExisting(r) ==
    /\ req[r].pc = "g_read_existing"
    /\ LET key  == <<PatientClinic(req[r].patient), req[r].date>>
           rows == DayRows(key[1], key[2])
       IN  IF rows = {}
           THEN /\ req' = [req EXCEPT ![r].pc = "g_read_clinic"]
                /\ UNCHANGED served
           ELSE \E id \in rows :
                  LET slots == JsonLoadsDict(day_slots[key][id])
                  IN  /\ req' = [req EXCEPT ![r] =
                                    [Done(@, "success") EXCEPT !.slots = slots]]
                      /\ served' = [served EXCEPT ![key] =
                                    [known |-> TRUE, slots |-> slots]]
    /\ UNCHANGED <<db, now>>

(* A variant of steps 4-6 that turns the request down when no day_obj has  *)
(* the weekday                                                             *)
DaySlotsReadClinicNoEmpty(r) ==
    /\ req[r].pc = "g_read_clinic"
    /\ LET text == clinic_slots[PatientClinic(req[r].patient)]
       IN  req' = [req EXCEPT ![r] =
                IF text = NoTemplate THEN Done(@, "Internal Server Error")
                ELSE IF SlotsForDay(JsonLoadsTemplate(text), Weekday(req[r].date)) = <<>>
                THEN Done(@, "Day slots not found")
                ELSE [@ EXCEPT !.pc = "insert_day",
                               !.slots = SlotsForDay(JsonLoadsTemplate(text),
                                                     Weekday(req[r].date))]]
    /\ UNCHANGED <<db, now, served>>

(* 4-6. weekday; clinics.select("clinic_slots"); json.loads; build         *)
(* slots_for_day.  A NULL clinic_slots makes the for loop raise TypeError   *)
DaySlotsReadClinic(r) ==
    /\ req[r].pc = "g_read_clinic"
    /\ LET text == clinic_slots[PatientClinic(req[r].patient)]
       IN  req' = [req EXCEPT ![r] =
                IF text = NoTemplate THEN Done(@, "Internal Server Error")
                ELSE [@ EXCEPT !.pc = "insert_day",
                               !.slots = SlotsForDay(JsonLoadsTemplate(text),
                                                     Weekday(req[r].date))]]
    /\ UNCHANGED <<db, now, served>>

(* A variant of step 7 that inserts the row for every clinic *)
DaySlotsInsertEveryClinic(r) ==
    /\ req[r].pc = "insert_day"
    /\ LET key == <<PatientClinic(req[r].patient), req[r].date>>
       IN  /\ day_slots' = [k \in Clinics \X Dates |->
                                IF k[2] = req[r].date
                                THEN Append(day_slots[k], JsonDumpsDict(req[r].slots))
                                ELSE day_slots[k]]
           /\ served' = [served EXCEPT ![key] =
                                [known |-> TRUE, slots |-> req[r].slots]]
    /\ req' = [req EXCEPT ![r] =
            [Done(@, "success") EXCEPT !.slots = req[r].slots,
                                       !.effects = {"insert"}]]
    /\ UNCHANGED <<accounts, clinic_slots, patients, appointments, ap_responses, now>>

(* 7. day_slots.insert({clinic_id, slot_date, slots: json.dumps(...)});    *)
(* return slots_for_day                                                     *)
DaySlotsInsert(r) ==
    /\ req[r].pc = "insert_day"
    /\ LET key == <<PatientClinic(req[r].patient), req[r].date>>
       IN  /\ day_slots' = [day_slots EXCEPT ![key] =
                                Append(@, JsonDumpsDict(req[r].slots))]
           /\ served' = [served EXCEPT ![key] =
                                [known |-> TRUE, slots |-> req[r].slots]]
    /\ req' = [req EXCEPT ![r] =
            [Done(@, "success") EXCEPT !.slots = req[r].slots,
                                       !.effects = {"insert"}]]
    /\ UNCHANGED <<accounts, clinic_slots, patients, appointments, ap_responses, now>>

----------------------------------------------------------------------------
(* GET /book/{token} : book_appointment_page.  It reads only; its three    *)
(* lookups are taken as one step.  The clinics table loses no row.         *)
BookAppointmentPage(r, t) ==
    /\ req[r].pc = "idle"
    /\ LET rq == [IdleReq EXCEPT !.kind = "page", !.token = t]
       IN  req' = [req EXCEPT ![r] =
                IF TokenRows(t) = {} THEN Done(rq, "Invalid token")
                ELSE IF appointments[t].used THEN Done(rq, "Token already used")
                ELSE IF appointments[t].expired THEN Done(rq, "Token expired")
                ELSE IF AgedOut(appointments[t].created_at, now)
                     THEN Done(rq, "Token expired")
                ELSE IF ~patients[appointments[t].patient_id].present
                     THEN Done(rq, "Patient not found")
                ELSE Done(rq, "success")]
    /\ UNCHANGED <<db, now, served>>

----------------------------------------------------------------------------
(* POST /signup : user_signup.  generate_token() draws a string no row     *)
(* holds; send_email() raises when the mail cannot be delivered            *)

(* 1. clinics.select("*").eq("email", e); a verified address is rejected *)
UserSignupRead(r, e) ==
    /\ req[r].pc = "idle"
    /\ LET rq == [IdleReq EXCEPT !.kind = "signup", !.email = e]
       IN  req' = [req EXCEPT ![r] =
                IF ~accounts[e].present THEN [rq EXCEPT !.pc = "s_insert"]
                ELSE IF accounts[e].email_verified
                     THEN Done(rq, "Email already registered")
                     ELSE [rq EXCEPT !.pc = "s_update"]]
    /\ UNCHANGED <<db, now, served>>

(* 2. clinics.update({"email_verify_token": token}) for an unverified row,  *)
(* clinics.insert(new_user) for a new address                               *)
UserSignupWrite(r, k) ==
    /\ req[r].pc \in {"s_insert", "s_update"}
    /\ \A e \in Emails : accounts[e].email_verify_token # k
    /\ accounts' = [accounts EXCEPT ![req[r].email] =
            IF req[r].pc = "s_insert"
            THEN [present |-> TRUE, email_verified |-> FALSE, email_verify_token |-> k]
            ELSE [@ EXCEPT !.email_verify_token = k]]
    /\ req' = [req EXCEPT ![r].pc = IF req[r].pc = "s_insert" THEN "send_signup"
                                                              ELSE "send_resend",
                          ![r].verify_token = k,
                          ![r].effects = {"clinic"}]
    /\ UNCHANGED <<clinic_slots, patients, appointments, day_slots, ap_responses,
                   now, served>>

(* 3. try: send_email(...) except Exception: print(...); return *)
UserSignupSendEmail(r, delivered) ==
    /\ req[r].pc \in {"send_signup", "send_resend"}
    /\ req' = [req EXCEPT ![r] =
            Done([@ EXCEPT !.mail = IF delivered THEN "sent" ELSE "failed"],
                 IF req[r].pc = "send_signup" THEN "success" ELSE "pending")]
    /\ UNCHANGED <<db, now, served>>

(* GET /verify-email : verify_email.  Its lookup by token and its update  *)
(* of the row found are taken as one step.                                 *)
VerifyEmail(r, k) ==
    /\ req[r].pc = "idle"
    /\ LET rq   == [IdleReq EXCEPT !.kind = "verify", !.verify_token = k]
           rows == {e \in Emails : accounts[e].present
                                     /\ accounts[e].email_verify_token = k}
       IN  IF rows = {}
           THEN /\ req' = [req EXCEPT ![r] = Done(rq, "Invalid or expired token")]
                /\ UNCHANGED accounts
           ELSE \E e \in rows :
                  /\ accounts' = [accounts EXCEPT ![e].email_verified = TRUE,
                                                  ![e].email_verify_token = 0]
                  /\ req' = [req EXCEPT ![r] =
                        Done([rq EXCEPT !.email = e, !.effects = {"clinic"}], "success")]
    /\ UNCHANGED <<clinic_slots, patients, appointments, day_slots, ap_responses,
                   now, served>>

(* POST /send-reminder-email : send_reminder_email.  The whole body is in  *)
(* a try block whose except clause raises HTTPException(500)               *)
SendReminderEmail(r, e, delivered) ==
    /\ req[r].pc = "idle"
    /\ LET rq == [IdleReq EXCEPT !.kind = "reminder", !.email = e,
                                 !.mail = IF delivered THEN "sent" ELSE "failed"]
       IN  req' = [req EXCEPT ![r] =
                Done(rq, IF delivered THEN "success" ELSE "Failed to send email")]
    /\ UNCHANGED <<db, now, served>>

----------------------------------------------------------------------------
(* The other operations that touch the engine's tables *)

(* POST /get-clinic-slots : get_clinic_slots, called with the session of   *)
(* clinic c.  It returns the stored clinic_slots text, None when the       *)
(* clinic never saved a template; the row of a signed-in clinic exists.    *)
GetClinicSlots(r, c) ==
    /\ req[r].pc = "idle"
    /\ LET rq == [IdleReq EXCEPT !.kind = "get_clinic_slots", !.clinic = c,
                                 !.clinic_slots = clinic_slots[c]]
       IN  req' = [req EXCEPT ![r] = Done(rq, "success")]
    /\ UNCHANGED <<db, now, served>>

(* A variant that keeps the day-entries saved before and adds the new ones *)
SaveClinicSlotsAppend(c, tpl) ==
    /\ clinic_slots' = [clinic_slots EXCEPT ![c] =
            IF @ = NoTemplate THEN JsonDumpsTemplate(tpl)
            ELSE JsonDumpsTemplate(JsonLoadsTemplate(@) \o tpl)]
    /\ UNCHANGED <<accounts, patients, appointments, day_slots, ap_responses, now, req, served>>

(* POST /save-clinic-slots : the template is replaced by the JSON text *)
SaveClinicSlots(c, tpl) ==
    /\ clinic_slots' = [clinic_slots EXCEPT ![c] = JsonDumpsTemplate(tpl)]
    /\ UNCHANGED <<accounts, patients, appointments, day_slots, ap_responses, now, req, served>>

(* POST /add-appointment : a fresh token row bound to the patient; used,    *)
(* expired and created_at take the column defaults                          *)
AddPatientAppointment(p) ==
    /\ Len(appointments) < MaxTokens
    /\ appointments' = Append(appointments,
            [patient_id |-> p, used |-> FALSE, expired |-> FALSE, created_at |-> now])
    /\ UNCHANGED <<accounts, clinic_slots, patients, day_slots, ap_responses, now, req, served>>

(* POST /delete-patient *)
DeletePatient(p) ==
    /\ patients[p].present
    /\ patients' = [patients EXCEPT ![p].present = FALSE]
    /\ UNCHANGED <<accounts, clinic_slots, appointments, day_slots, ap_responses, now, req, served>>

(* The stored expired flag is set from outside this file (no handler       *)
(* writes the column; three handlers read it)                              *)
ExpireToken(t) ==
    /\ t \in DOMAIN appointments
    /\ ~appointments[t].expired
    /\ appointments' = [appointments EXCEPT ![t].expired = TRUE]
    /\ UNCHANGED <<accounts, clinic_slots, patients, day_slots, ap_responses, now, req, served>>

(* Wall-clock time passes.  No handler reads the clock between two of its *)
(* datastore calls, so time that passes during a request is time that     *)
(* passed before it: the clock moves while the workers are idle           *)
Tick ==
    /\ \A r \in Reqs : req[r].pc = "idle"
    /\ \E d \in TickDays : now + d <= MaxNow /\ now' = now + d
    /\ UNCHANGED <<db, req, served>>

----------------------------------------------------------------------------
(* Specifications *)

(* Worker r takes one step of a booking handler, for a date of D *)
Handler(r, D) ==
    \/ \E t \in 1..MaxTokens, d \in D, s \in Labels : ReserveReadToken(r, t, d, s)
    \/ ReserveReadPatient(r)
    \/ ReserveReadDay(r)
    \/ ReserveWriteDay(r)
    \/ ReserveWritePatient(r)
    \/ ReserveWriteLog(r)
    \/ ReserveWriteToken(r)
    \/ \E t \in 1..MaxTokens, d \in D : DaySlotsReadToken(r, t, d)
    \/ DaySlotsReadPatient(r)
    \/ DaySlotsReadExisting(r)
    \/ DaySlotsReadClinic(r)
    \/ DaySlotsInsert(r)
    \/ Finish(r)

(* Spec: two workers serve requests at the same time, all on behalf of     *)
(* patient p1 of clinic c1 and for one date                                *)
Next ==
    \/ \E r \in Reqs : Handler(r, RaceDates)
    \/ \E tpl \in Templates : SaveClinicSlots("c1", tpl)
    \/ AddPatientAppointment("p1")

Spec == Init /\ [][Next]_vars

(* SeqSpec: one worker, so requests come one after the other; clinic c1's  *)
(* tokens are marked expired and its patient may be deleted                *)
SeqNext ==
    \/ Handler(1, Dates)
    \/ \E tpl \in Templates : SaveClinicSlots("c1", tpl)
    \/ AddPatientAppointment("p1")
    \/ DeletePatient("p1")
    \/ \E t \in 1..MaxTokens : ExpireToken(t)

SeqSpec == Init /\ [][SeqNext]_vars

(* FailSpec: one worker; any datastore write may fail *)
FailNext ==
    \/ Handler(1, Dates)
    \/ StorageFailure(1)
    \/ \E tpl \in Templates : SaveClinicSlots("c1", tpl)
    \/ AddPatientAppointment("p1")

FailSpec == Init /\ [][FailNext]_vars

(* TimeSpec: one worker; time passes and tokens age *)
TimeNext ==
    \/ Handler(1, Dates)
    \/ \E t \in 1..MaxTokens : BookAppointmentPage(1, t)
    \/ \E tpl \in Templates : SaveClinicSlots("c1", tpl)
    \/ AddPatientAppointment("p1")
    \/ \E t \in 1..MaxTokens : ExpireToken(t)
    \/ Tick

TimeSpec == Init /\ [][TimeNext]_vars

(* MatSpec: one worker; both clinics save templates and both have patients *)
MatNext ==
    \/ Handler(1, Dates)
    \/ \E c \in Clinics, tpl \in Templates : SaveClinicSlots(c, tpl)
    \/ \E p \in PatientIds : AddPatientAppointment(p)

MatSpec == Init /\ [][MatNext]_vars

(* FrameSpec: one worker; both clinics save the plain template, both have *)
(* patients, and requests come for both dates                              *)
FrameNext ==
    \/ Handler(1, Dates)
    \/ \E c \in Clinics : SaveClinicSlots(c, TplPlain)
    \/ \E p \in PatientIds : AddPatientAppointment(p)

FrameSpec == Init /\ [][FrameNext]_vars

(* FlagSpec: two workers; tokens are marked expired while requests are    *)
(* served                                                                  *)
FlagNext ==
    \/ \E r \in Reqs : Handler(r, RaceDates)
    \/ SaveClinicSlots("c1", TplPlain)
    \/ AddPatientAppointment("p1")
    \/ \E t \in 1..MaxTokens : ExpireToken(t)

FlagSpec == Init /\ [][FlagNext]_vars

(* TplSpec: one worker; both clinics save and read back templates, and    *)
(* day inventories are materialized from them                              *)
TplNext ==
    \/ \E c \in Clinics, tpl \in Templates : SaveClinicSlots(c, tpl)
    \/ \E c \in Clinics : GetClinicSlots(1, c)
    \/ \E p \in PatientIds : AddPatientAppointment(p)
    \/ \E t \in 1..MaxTokens, d \in Dates : DaySlotsReadToken(1, t, d)
    \/ DaySlotsReadPatient(1)
    \/ DaySlotsReadExisting(1)
    \/ DaySlotsReadClinic(1)
    \/ DaySlotsInsert(1)
    \/ Finish(1)

TplSpec == Init /\ [][TplNext]_vars

(* NotifySpec: one worker; clinics sign up, verify their address and send *)
(* reminders, and any mail may fail to be delivered                        *)
NotifyNext ==
    \/ \E e \in Emails : UserSignupRead(1, e)
    \/ \E k \in 1..MaxVerify : UserSignupWrite(1, k)
    \/ \E delivered \in BOOLEAN : UserSignupSendEmail(1, delivered)
    \/ \E k \in 1..MaxVerify : VerifyEmail(1, k)
    \/ \E e \in Emails, delivered \in BOOLEAN : SendReminderEmail(1, e, delivered)
    \/ Finish(1)

NotifySpec == Init /\ [][NotifyNext]_vars

----------------------------------------------------------------------------
(* Properties *)

TokenClinic(t) == PatientClinic(appointments[t].patient_id)

Reserved(r) == req[r].kind = "reserve" /\ req[r].pc = "done"

AllFour == {"slot", "patient", "log", "token"}

ValidationErrors ==
    {"Invalid token", "Token already used or expired", "Patient not found",
     "Day slots not found", "Slot does not exist", "Slot already booked"}

(* C1: two ReserveSlot requests running at the same time with distinct     *)
(* tokens of the same clinic for the same date and slot never both return  *)
(* success.                                                                *)
C1_ExactlyOneSuccess ==
    \A r1, r2 \in Reqs :
        (/\ r1 # r2
         /\ Reserved(r1) /\ Reserved(r2)
         /\ req[r1].token # req[r2].token
         /\ req[r1].token \in DOMAIN appointments
         /\ req[r2].token \in DOMAIN appointments
         /\ TokenClinic(req[r1].token) = TokenClinic(req[r2].token)
         /\ req[r1].date = req[r2].date
         /\ req[r1].slot = req[r2].slot)
        => ~(req[r1].result = "success" /\ req[r2].result = "success")

(* C2: two ReserveSlot requests that present the same token never both     *)
(* succeed.                                                                *)
C2_OneSuccessPerToken ==
    \A r1, r2 \in Reqs :
        (/\ r1 # r2
         /\ Reserved(r1) /\ Reserved(r2)
         /\ req[r1].result = "success" /\ req[r2].result = "success")
        => req[r1].token # req[r2].token

(* C3: there is at most one day_slots row per (clinic_id, date). *)
C3_OneRowPerKey ==
    \A k \in Clinics \X Dates : Len(day_slots[k]) <= 1

(* C4: a ReserveSlot that presents a token whose used flag is set (set by  *)
(* the reservation that succeeded with it) is rejected at the token check  *)
(* and changes no table; the used flag never goes back to false.           *)
C4_UsedTokenRejected ==
    [][/\ \A r \in Reqs :
            (/\ req[r].pc = "idle"
             /\ req'[r].pc # "idle"
             /\ req'[r].kind = "reserve"
             /\ req'[r].token \in DOMAIN appointments
             /\ appointments[req'[r].token].used)
            => (/\ req'[r].pc = "done"
                /\ req'[r].result = "Token already used or expired"
                /\ req'[r].effects = {}
                /\ db' = db)
       /\ \A t \in DOMAIN appointments :
            appointments[t].used => appointments'[t].used]_vars

C4_Witness ==
    \E r \in Reqs :
        /\ Reserved(r)
        /\ req[r].result = "Token already used or expired"
        /\ appointments[req[r].token].used
        /\ ~appointments[req[r].token].expired
        /\ ap_responses # EmptyBag

(* C5: a ReserveSlot that presents a token created more than 7 days ago    *)
(* does not succeed and applies no write.                                  *)
C5_AgedTokenBooksNothing ==
    \A r \in Reqs :
        (/\ Reserved(r)
         /\ req[r].token \in DOMAIN appointments
         /\ AgedOut(appointments[req[r].token].created_at, now))
        => (req[r].result # "success" /\ req[r].effects = {})

(* C6: a ReserveSlot that has ended, aborted or not, has applied all four  *)
(* of its writes or none of them.                                          *)
C6_AllOrNothing ==
    \A r \in Reqs : Reserved(r) => req[r].effects \in {{}, AllFour}

(* C7: a ReserveSlot that ends with a validation error has applied no      *)
(* write, and the step that rejects it changes no table.                   *)
C7_ValidationFailureWritesNothing ==
    [][\A r \in Reqs :
            (/\ req[r].pc # "done"
             /\ req'[r].pc = "done"
             /\ req'[r].kind = "reserve"
             /\ req'[r].result \in ValidationErrors)
            => (req'[r].effects = {} /\ db' = db)]_vars

C7_Witness ==
    \E r \in Reqs :
        /\ Reserved(r)
        /\ req[r].result = "Slot does not exist"
        /\ req[r].effects = {}
        /\ \E k \in Clinics \X Dates : \E i \in DOMAIN day_slots[k] :
              "booked" \in {p[2] : p \in {JsonLoadsDict(day_slots[k][i])[j] :
                                 j \in DOMAIN JsonLoadsDict(day_slots[k][i])}}

(* C8: a ReserveSlot with an unused, unexpired token for a slot that the   *)
(* single inventory row of its (clinic, date) holds as booked ends with    *)
(* "Slot already booked"; no table changes, so the slot stays booked and   *)
(* the token stays unused.                                                 *)
C8_BookedSlotRejected ==
    [][\A r \in Reqs :
            (/\ req[r].pc = "read_day"
             /\ req'[r].pc # "read_day"
             /\ ~Unusable(appointments[req[r].token])
             /\ LET key == <<PatientClinic(req[r].patient), req[r].date>>
                IN  /\ Len(day_slots[key]) = 1
                    /\ DictHas(JsonLoadsDict(day_slots[key][1]), req[r].slot)
                    /\ DictGet(JsonLoadsDict(day_slots[key][1]), req[r].slot) = "booked")
            => (/\ req'[r].pc = "done"
                /\ req'[r].result = "Slot already booked"
                /\ req'[r].effects = {}
                /\ db' = db
                /\ ~appointments'[req[r].token].used)]_vars

C8_Witness ==
    \E r \in Reqs :
        /\ Reserved(r)
        /\ req[r].result = "Slot already booked"
        /\ ~Unusable(appointments[req[r].token])
        /\ \E t \in DOMAIN appointments : t # req[r].token /\ appointments[t].used

(* C9: a GetOrCreateDaySlots that succeeds for a (clinic, date) for which  *)
(* an earlier call has returned a map, with no reservation written to that *)
(* inventory since, returns the same label-to-state map and leaves the     *)
(* day_slots table as it is, whatever the weekly template is by then.      *)
C9_SecondCallSame ==
    [][\A r \in Reqs :
            (/\ req[r].kind = "dayslots"
             /\ req[r].pc # "done"
             /\ req'[r].pc = "done"
             /\ req'[r].result = "success"
             /\ served[<<PatientClinic(req[r].patient), req[r].date>>].known)
            => (/\ DictMap(req'[r].slots) =
                   DictMap(served[<<PatientClinic(req[r].patient), req[r].date>>].slots)
                /\ day_slots' = day_slots)]_vars

(* A call has found the row an earlier call inserted, no slot of which has *)
(* been booked since, and has returned its map, although the clinic's      *)
(* template would by now give other labels                                 *)
C9_Witness ==
    \E r \in Reqs :
        /\ req[r].kind = "dayslots" /\ req[r].pc = "done"
        /\ req[r].result = "success"
        /\ req[r].effects = {}
        /\ \A k \in DictKeys(req[r].slots) : DictGet(req[r].slots, k) = "free"
        /\ LET c == TokenClinic(req[r].token)
           IN  /\ served[<<c, req[r].date>>].known
               /\ DictMap(served[<<c, req[r].date>>].slots) = DictMap(req[r].slots)
               /\ clinic_slots[c] # NoTemplate
               /\ DictKeys(SlotsForDay(JsonLoadsTemplate(clinic_slots[c]),
                                       Weekday(req[r].date)))
                    # DictKeys(req[r].slots)

(* The labels of the first day-entry of tpl that lists weekday w *)
HasDay(tpl, w) == \E i \in DOMAIN tpl : DictHas(tpl[i], w)

FirstEntryLabels(tpl, w) ==
    LET i == CHOOSE j \in DOMAIN tpl :
                /\ DictHas(tpl[j], w)
                /\ \A k \in 1..(j - 1) : ~DictHas(tpl[k], w)
        labels == DictGet(tpl[i], w)
    IN  {labels[n] : n \in DOMAIN labels}

(* Day number d falls on weekday w: day 0 is a Monday *)
FallsOn(d, w) == \E i \in 1..7 : DayCodes[i] = w /\ (d - (i - 1)) % 7 = 0

(* C10: when the clinic's template tpl has a day-entry for the weekday w   *)
(* of the requested date and the date has no inventory yet, the map that   *)
(* GetOrCreateDaySlots builds has exactly the labels listed under w (of    *)
(* the first such entry), all "free"; it inserts one row holding that map  *)
(* and returns that map.                                                   *)
C10_MaterializedFromTemplate ==
    [][\A r \in Reqs :
          /\ (req[r].pc = "g_read_clinic" /\ req'[r].pc = "insert_day")
             => \A tpl \in Templates, w \in {DayCodes[i] : i \in 1..7} :
                   (/\ clinic_slots[PatientClinic(req[r].patient)] = JsonDumpsTemplate(tpl)
                    /\ FallsOn(req[r].date, w)
                    /\ HasDay(tpl, w))
                   => DictMap(req'[r].slots) =
                        [l \in FirstEntryLabels(tpl, w) |-> "free"]
          /\ (req[r].pc = "insert_day" /\ req'[r].pc = "done"
                /\ req'[r].result = "success")
             => LET key == <<PatientClinic(req[r].patient), req[r].date>>
                IN  /\ DictMap(req'[r].slots) = DictMap(req[r].slots)
                    /\ Len(day_slots'[key]) = Len(day_slots[key]) + 1
                    /\ DictMap(JsonLoadsDict(day_slots'[key][Len(day_slots'[key])]))
                         = DictMap(req[r].slots)
                    /\ \A k \in Clinics \X Dates :
                          k # key => day_slots'[k] = day_slots[k]]_vars

C10_Witness ==
    \E r \in Reqs :
        /\ req[r].kind = "dayslots" /\ req[r].pc = "done"
        /\ req[r].result = "success"
        /\ req[r].effects = {"insert"}
        /\ FallsOn(req[r].date, "mon")
        /\ DictMap(req[r].slots) = [l \in {"09:00", "09:30"} |-> "free"]
        /\ DictMap(JsonLoadsDict(day_slots[<<TokenClinic(req[r].token), req[r].date>>][1]))
             = DictMap(req[r].slots)

(* The labels of the inventory row: the keys of its slots column *)
RowLabels(text) == DictKeys(JsonLoadsDict(text))

(* C11: a day_slots row, once inserted, stays in the table and keeps its   *)
(* set of slot labels through every step: template saves, day-slot         *)
(* requests and reservations add, remove and rename no label.              *)
C11_LabelSetImmutable ==
    [][\A k \in Clinics \X Dates : \A i \in DOMAIN day_slots[k] :
            /\ i \in DOMAIN day_slots'[k]
            /\ RowLabels(day_slots'[k][i]) = RowLabels(day_slots[k][i])]_vars

(* An inventory with a slot booked and another free whose labels are not   *)
(* the labels the clinic's template gives for that weekday any more        *)
C11_Witness ==
    \E k \in Clinics \X Dates :
        /\ Len(day_slots[k]) = 1
        /\ clinic_slots[k[1]] # NoTemplate
        /\ LET slots == JsonLoadsDict(day_slots[k][1])
           IN  /\ \E l \in DictKeys(slots) : DictGet(slots, l) = "booked"
               /\ \E l \in DictKeys(slots) : DictGet(slots, l) = "free"
               /\ DictKeys(slots) #
                    DictKeys(SlotsForDay(JsonLoadsTemplate(clinic_slots[k[1]]),
                                         Weekday(k[2])))

(* C12: a ReserveSlot that finds no inventory row for its clinic and date  *)
(* ends with "Day slots not found" and inserts none: the day_slots table,  *)
(* like every other table, is the same before and after.                   *)
C12_ReserveNeverMaterializes ==
    [][\A r \in Reqs :
            (/\ req[r].pc = "read_day"
             /\ req'[r].pc # "read_day"
             /\ day_slots[<<PatientClinic(req[r].patient), req[r].date>>] = <<>>)
            => (/\ req'[r].pc = "done"
                /\ req'[r].result = "Day slots not found"
                /\ req'[r].effects = {}
                /\ day_slots' = day_slots
                /\ db' = db)]_vars

(* Rejected for want of an inventory although the clinic's template lists *)
(* the requested slot for that weekday                                     *)
C12_Witness ==
    \E r \in Reqs :
        /\ Reserved(r)
        /\ req[r].result = "Day slots not found"
        /\ LET c == TokenClinic(req[r].token)
           IN  /\ day_slots[<<c, req[r].date>>] = <<>>
               /\ clinic_slots[c] # NoTemplate
               /\ DictHas(SlotsForDay(JsonLoadsTemplate(clinic_slots[c]),
                                      Weekday(req[r].date)), req[r].slot)

(* The appointment-log row a reservation of worker r writes *)
LogEntry(r) ==
    [clinic_id |-> TokenClinic(req[r].token),
     name      |-> appointments[req[r].token].patient_id,
     date      |-> req[r].date,
     slot      |-> req[r].slot]

(* The slot worker r asked for is booked in every inventory row of its key *)
SlotBooked(r) ==
    LET key == <<TokenClinic(req[r].token), req[r].date>>
    IN  /\ day_slots[key] # <<>>
        /\ \A i \in DOMAIN day_slots[key] :
              LET slots == JsonLoadsDict(day_slots[key][i])
              IN  DictHas(slots, req[r].slot) /\ DictGet(slots, req[r].slot) = "booked"

(* C13: a reservation that has set its token's used flag has passed        *)
(* validation and flipped its slot before, and from then on the token      *)
(* is used, the slot is booked in the inventory and the appointment-log    *)
(* row exists; this holds in every state, those after an abort included.   *)
C13_UsedTokenHasBooking ==
    \A r \in Reqs :
        (req[r].kind = "reserve" /\ "token" \in req[r].effects)
        => (/\ {"slot", "log"} \subseteq req[r].effects
            /\ appointments[req[r].token].used
            /\ SlotBooked(r)
            /\ BagIn(LogEntry(r), ap_responses))

(* The number of appointment-log rows for slot l of clinic c on date d *)
RECURSIVE CountEntries(_, _, _, _)
CountEntries(P, c, d, l) ==
    IF P = {} THEN 0
    ELSE LET p == CHOOSE x \in P : TRUE
         IN  CopiesIn([clinic_id |-> c, name |-> p, date |-> d, slot |-> l],
                      ap_responses)
               + CountEntries(P \ {p}, c, d, l)

(* No reservation is between its slot flip and its appointment-log insert *)
NoReservationInFlight ==
    \A r \in Reqs : req[r].pc \notin {"write_patient", "write_log"}

LogMatchesInventory ==
    \A k \in Clinics \X Dates : \A i \in DOMAIN day_slots[k] :
        LET slots == JsonLoadsDict(day_slots[k][i])
        IN  \A l \in DictKeys(slots) :
                CountEntries(PatientIds, k[1], k[2], l) =
                    IF DictGet(slots, l) = "booked" THEN 1 ELSE 0

(* C14: whenever no reservation is in the middle of its writes, the        *)
(* appointment log holds exactly one row for every slot that is booked in  *)
(* a day inventory and none for a slot that is free; no step removes or    *)
(* changes a row of the log.                                               *)
C14_OneLogEntryPerBookedSlot ==
    [][/\ NoReservationInFlight' => LogMatchesInventory'
       /\ ap_responses \sqsubseteq ap_responses']_vars

(* The responses modify_slots gives when the token row is missing or after *)
(* the check of the token's flags has passed                               *)
OtherOutcomes ==
    {"Invalid token", "Patient not found", "Day slots not found",
     "Slot does not exist", "Slot already booked", "success",
     "Internal Server Error"}

(* Worker r's reservation was turned down by the check of the token's flags *)
RejectedForFlags(r) ==
    /\ Reserved(r)
    /\ req[r].token \in DOMAIN appointments
    /\ req[r].result \notin OtherOutcomes

(* C15: a ReserveSlot turned down because its token is used and a          *)
(* ReserveSlot turned down because its token's expired flag is set get     *)
(* different responses, so that the caller can tell the two apart.         *)
C15_UsedAndExpiredDistinct ==
    \A r1, r2 \in Reqs :
        (/\ RejectedForFlags(r1) /\ RejectedForFlags(r2)
         /\ appointments[req[r1].token].used
         /\ ~appointments[req[r1].token].expired
         /\ appointments[req[r2].token].expired
         /\ ~appointments[req[r2].token].used)
        => req[r1].result # req[r2].result

(* C16: a signup or a reminder request whose mail could not be delivered   *)
(* still ends with its success response, and the row a signup wrote        *)
(* stays as written.                                                       *)
C16_MailFailureNotSurfaced ==
    \A r \in Reqs :
        (/\ req[r].pc = "done"
         /\ req[r].kind \in {"signup", "reminder"}
         /\ req[r].mail = "failed")
        => (/\ req[r].result \in {"success", "pending"}
            /\ req[r].kind = "signup"
                 => (/\ accounts[req[r].email].present
                     /\ accounts[req[r].email].email_verify_token
                          = req[r].verify_token))

(* C17: a step that saves template tpl for clinic c leaves as c's stored   *)
(* template exactly tpl, whatever was stored before, and leaves the        *)
(* templates of the other clinics as they were; a step that reads c's      *)
(* template returns the stored text, which parses to the template saved    *)
(* last.                                                                   *)
C17_TemplateReplacedWhole ==
    [][/\ \A c \in Clinics, tpl \in Templates :
            SaveClinicSlots(c, tpl)
            => (/\ JsonLoadsTemplate(clinic_slots'[c]) = tpl
                /\ \A c2 \in Clinics \ {c} : clinic_slots'[c2] = clinic_slots[c2])
       /\ \A r \in Reqs, c \in Clinics :
            GetClinicSlots(r, c)
            => (/\ req'[r].result = "success"
                /\ req'[r].clinic_slots = clinic_slots[c]
                /\ clinic_slots' = clinic_slots)]_vars

(* The clinic reads back TplPlain after it had saved TplDup before (an     *)
(* inventory for a Monday still has TplDup's labels), while the other      *)
(* clinic's template is in place                                           *)
C17_Witness ==
    \E r \in Reqs :
        /\ req[r].kind = "get_clinic_slots" /\ req[r].pc = "done"
        /\ req[r].clinic_slots # NoTemplate
        /\ JsonLoadsTemplate(req[r].clinic_slots) = TplPlain
        /\ \E d \in Dates :
              /\ Len(day_slots[<<req[r].clinic, d>>]) = 1
              /\ RowLabels(day_slots[<<req[r].clinic, d>>][1]) = {"09:30"}
        /\ \E c2 \in Clinics \ {req[r].clinic} :
              clinic_slots[c2] = JsonDumpsTemplate(TplDup)

(* Worker r's reservation applies write w in this step *)
Applies(r, w) ==
    /\ req'[r].kind = "reserve"
    /\ w \notin req[r].effects
    /\ w \in req'[r].effects

(* C18: a reservation applies its writes in the order slot flip,           *)
(* appointment-log insert, token consume, patient next_visit update: each  *)
(* write is applied when exactly the writes before it in that order have   *)
(* been applied.                                                           *)
C18_WriteOrder ==
    [][\A r \in Reqs :
          /\ Applies(r, "slot")    => req[r].effects = {}
          /\ Applies(r, "log")     => req[r].effects = {"slot"}
          /\ Applies(r, "token")   => req[r].effects = {"slot", "log"}
          /\ Applies(r, "patient") => req[r].effects = {"slot", "log", "token"}]_vars

(* C19: a GetOrCreateDaySlots that presents a token created more than 7    *)
(* days ago does not succeed and inserts no inventory, whatever the        *)
(* stored expired flag says.                                               *)
C19_AgedTokenMaterializesNothing ==
    \A r \in Reqs :
        (/\ req[r].kind = "dayslots" /\ req[r].pc = "done"
         /\ req[r].token \in DOMAIN appointments
         /\ AgedOut(appointments[req[r].token].created_at, now))
        => (req[r].result # "success" /\ req[r].effects = {})

(* The day-entries of tpl that list weekday w, by position *)
EntriesFor(tpl, w) == {i \in DOMAIN tpl : DictHas(tpl[i], w)}

EntryLabels(tpl, i, w) ==
    {DictGet(tpl[i], w)[n] : n \in DOMAIN DictGet(tpl[i], w)}

(* C20: when the clinic's template has several day-entries for the         *)
(* weekday of the requested date, the map GetOrCreateDaySlots builds has   *)
(* the labels of the entry that comes first in the template and none of    *)
(* the labels that only later entries list; the row it inserts holds the   *)
(* labels of that map.                                                     *)
C20_FirstDuplicateEntryWins ==
    [][\A r \in Reqs :
          /\ (req[r].pc = "g_read_clinic" /\ req'[r].pc = "insert_day")
             => \A tpl \in Templates, w \in {DayCodes[i] : i \in 1..7} :
                   (/\ clinic_slots[PatientClinic(req[r].patient)] = JsonDumpsTemplate(tpl)
                    /\ FallsOn(req[r].date, w)
                    /\ Cardinality(EntriesFor(tpl, w)) > 1)
                   => \E i \in EntriesFor(tpl, w) :
                        /\ \A j \in EntriesFor(tpl, w) : i <= j
                        /\ DictKeys(req'[r].slots) = EntryLabels(tpl, i, w)
                        /\ \A j \in EntriesFor(tpl, w) :
                              \A l \in EntryLabels(tpl, j, w) \ EntryLabels(tpl, i, w) :
                                  ~DictHas(req'[r].slots, l)
          /\ (req[r].pc = "insert_day" /\ req'[r].pc = "done"
                /\ req'[r].result = "success")
             => LET rows == day_slots'[<<PatientClinic(req[r].patient), req[r].date>>]
                IN  RowLabels(rows[Len(rows)]) = DictKeys(req[r].slots)]_vars

(* An inventory materialized for a Monday from TplDup, whose first Monday  *)
(* entry lists "09:30" and whose second lists "09:00"                      *)
C20_Witness ==
    \E r \in Reqs :
        /\ req[r].kind = "dayslots" /\ req[r].pc = "done"
        /\ req[r].result = "success"
        /\ req[r].effects = {"insert"}
        /\ FallsOn(req[r].date, "mon")
        /\ clinic_slots[TokenClinic(req[r].token)] = JsonDumpsTemplate(TplDup)
        /\ Cardinality(EntriesFor(TplDup, "mon")) = 2
        /\ DictKeys(req[r].slots) = {"09:30"}
        /\ RowLabels(day_slots[<<TokenClinic(req[r].token), req[r].date>>][1]) = {"09:30"}

(* C21: when the stored template has no day-entry for the weekday of the   *)
(* requested date, GetOrCreateDaySlots builds the empty map, inserts a row *)
(* holding it and returns it; a later call that finds that row returns the *)
(* empty map and inserts nothing, whatever the template is by then.        *)
C21_NoMatchingEntryGivesEmpty ==
    [][\A r \in Reqs :
          /\ (req[r].pc = "g_read_clinic" /\ req'[r].pc # "g_read_clinic")
             => \A tpl \in Templates, w \in {DayCodes[i] : i \in 1..7} :
                   (/\ clinic_slots[PatientClinic(req[r].patient)] = JsonDumpsTemplate(tpl)
                    /\ FallsOn(req[r].date, w)
                    /\ EntriesFor(tpl, w) = {})
                   => (req'[r].pc = "insert_day" /\ req'[r].slots = <<>>)
          /\ (req[r].pc = "insert_day" /\ req'[r].pc # "insert_day"
                /\ req[r].slots = <<>>)
             => LET rows == day_slots'[<<PatientClinic(req[r].patient), req[r].date>>]
                IN  /\ req'[r].pc = "done" /\ req'[r].result = "success"
                    /\ req'[r].slots = <<>>
                    /\ Len(rows) = Len(day_slots[<<PatientClinic(req[r].patient),
                                                   req[r].date>>]) + 1
                    /\ RowLabels(rows[Len(rows)]) = {}
          /\ (req[r].pc = "g_read_existing" /\ req'[r].pc # "g_read_existing"
                /\ LET rows == day_slots[<<PatientClinic(req[r].patient), req[r].date>>]
                   IN  Len(rows) = 1 /\ RowLabels(rows[1]) = {})
             => (/\ req'[r].pc = "done" /\ req'[r].result = "success"
                 /\ req'[r].slots = <<>>
                 /\ day_slots' = day_slots)]_vars

(* A call has found the empty inventory of its date and returned the empty *)
(* map, although the clinic's template now lists slots for that weekday    *)
C21_Witness ==
    \E r \in Reqs :
        /\ req[r].kind = "dayslots" /\ req[r].pc = "done"
        /\ req[r].result = "success"
        /\ req[r].effects = {}
        /\ req[r].slots = <<>>
        /\ LET c == TokenClinic(req[r].token)
           IN  /\ Len(day_slots[<<c, req[r].date>>]) = 1
               /\ RowLabels(day_slots[<<c, req[r].date>>][1]) = {}
               /\ clinic_slots[c] # NoTemplate
               /\ SlotsForDay(JsonLoadsTemplate(clinic_slots[c]),
                              Weekday(req[r].date)) # <<>>

(* Label l is booked in the inventory row with slots text *)
BookedIn(text, l) ==
    LET slots == JsonLoadsDict(text)
    IN  DictHas(slots, l) /\ DictGet(slots, l) = "booked"

(* C22: a slot that is booked in an inventory row is booked in that row    *)
(* after every step, whatever reservations run at the same time on that    *)
(* inventory.                                                              *)
C22_BookedStaysBooked ==
    [][\A k \in Clinics \X Dates : \A i \in DOMAIN day_slots[k] : \A l \in Labels :
            BookedIn(day_slots[k][i], l)
            => (i \in DOMAIN day_slots'[k] /\ BookedIn(day_slots'[k][i], l))]_vars

(* Worker r takes a step of a ReserveSlot or a GetOrCreateDaySlots *)
BookingStep(r) ==
    /\ req'[r] # req[r]
    /\ req'[r].kind \in {"reserve", "dayslots"}
    /\ req'[r].token \in DOMAIN appointments

(* C23: every step of a ReserveSlot or GetOrCreateDaySlots made with a     *)
(* token of a patient of clinic A for date D leaves the inventories of     *)
(* every other clinic and of every other date as they are; the map the     *)
(* request works on or returns comes from a row of (A, D).                 *)
C23_OnlyOwnInventory ==
    [][\A r \in Reqs :
          BookingStep(r)
          => LET key == <<TokenClinic(req'[r].token), req'[r].date>>
             IN  /\ \A k \in Clinics \X Dates :
                       k # key => day_slots'[k] = day_slots[k]
                 /\ (req[r].pc = "read_day" /\ req'[r].pc = "write_day")
                    => \E i \in DOMAIN day_slots[key] :
                          req'[r].slots = DictSet(JsonLoadsDict(day_slots[key][i]),
                                                  req'[r].slot, "booked")
                 /\ (req[r].pc = "g_read_existing" /\ req'[r].pc = "done")
                    => \E i \in DOMAIN day_slots[key] :
                          req'[r].slots = JsonLoadsDict(day_slots[key][i])]_vars

(* A reservation has succeeded for (A, D) while the other clinic has an    *)
(* inventory for the same date that lists the same slot, still free        *)
C23_Witness ==
    \E r \in Reqs :
        /\ Reserved(r) /\ req[r].result = "success"
        /\ SlotBooked(r)
        /\ \E c \in Clinics \ {TokenClinic(req[r].token)} :
              /\ Len(day_slots[<<c, req[r].date>>]) = 1
              /\ LET slots == JsonLoadsDict(day_slots[<<c, req[r].date>>][1])
                 IN  DictHas(slots, req[r].slot) /\ DictGet(slots, req[r].slot) = "free"

====
